---- MODULE Spec2Model ----
(***************************************************************************)
(* Model of envs/vss_strat.py: VSSStratEnv, the stratified-reward VSS      *)
(* soccer environment.                                                     *)
(*                                                                         *)
(* VSSStratEnv derives from rsoccer_gym's VSSBaseEnv.  The inherited       *)
(* template methods (reached through the super() calls at lines 56, 98 and *)
(* 101 of vss_strat.py) are modelled inline in the actions that call them: *)
(*   VSSBaseEnv.__init__ : frame = last_frame = sent_commands = None,      *)
(*                         steps = 0, field and max_v from the simulator   *)
(*   VSSBaseEnv.reset    : steps = 0; last_frame = None;                   *)
(*                         sent_commands = None;                           *)
(*                         rsim.reset(_get_initial_positions_frame());     *)
(*                         frame = rsim.get_frame()                        *)
(*   VSSBaseEnv.step     : steps += 1; commands = _get_commands(action);   *)
(*                         rsim.send_commands(commands);                   *)
(*                         sent_commands = commands;                       *)
(*                         last_frame = frame; frame = rsim.get_frame();   *)
(*                         _frame_to_observations();                       *)
(*                         reward, done = _calculate_reward_and_done()     *)
(* The simulator (rsim), the KD-tree and the Ornstein-Uhlenbeck noise      *)
(* sources are external: the frame the simulator returns and the samples   *)
(* of a noise source are nondeterministic choices from small sets.         *)
(*                                                                         *)
(* Left out: _frame_to_observations (reads the frame, writes nothing), the  *)
(* robots' theta (drawn independently of the positions), the frame fields  *)
(* the reward never reads, and previous_ball_potential (set to None in     *)
(* __init__ and reset, never read).                                        *)
(*                                                                         *)
(* Fixed point.  Reals are integers in these units:                        *)
(*   positions cm, velocities cm/s, actions 1/1000, linear wheel speed     *)
(*   um/s (= action * max_v with max_v in mm/s), wheel radius mm, angular  *)
(*   wheel speed mrad/s, reward components 1e-4, weights 1e-4, the         *)
(*   weighted scalar (Original_reward) 1e-8.                               *)
(* Divisions truncate toward zero; the input sets are chosen so that the   *)
(* square roots are exact.                                                 *)
(***************************************************************************)
EXTENDS Integers, Sequences, FiniteSets, TLC

VARIABLES
    \* ---- VSSStratEnv / VSSBaseEnv fields
    stratified,              \* self.stratified
    actions,                 \* self.actions: None or dict robot id -> action
    cumulative_reward_info,  \* self.cumulative_reward_info: None or dict
    frame,                   \* self.frame
    last_frame,              \* self.last_frame
    sent_commands,           \* self.sent_commands
    steps,                   \* self.steps
    ou_actions,              \* per noise source: samples drawn since its reset
    \* ---- history variables (observers of the calls, not program state)
    phase,                   \* UNINITIALIZED / RUNNING / DONE of the episode
    hist,                    \* reward vectors of the successful steps since reset
    ret,                     \* what the last call returned (or that it raised)
    pre,                     \* the episode state just before the last call
    \* ---- _get_initial_positions_frame (the placement sampler)
    field,                   \* self.field (geometry read by the sampler)
    n_robots,                \* <<n_robots_blue, n_robots_yellow>>
    places,                  \* points inserted in the KD-tree, in order
    pos,                     \* the current draw
    ppc,                     \* position in the sampler's code
    \* ---- _actions_to_v_wheels as a pure function
    w_in,                    \* [actions, max_v, rbt_wheel_radius]
    w_out                    \* None or <<left, right>>

envVars == <<stratified, actions, cumulative_reward_info, frame, last_frame,
             sent_commands, steps, ou_actions, phase, hist, ret, pre>>
placeVars == <<field, n_robots, places, pos, ppc>>
wheelVars == <<w_in, w_out>>
vars == <<envVars, placeVars, wheelVars>>

----------------------------------------------------------------------------
\* Bounds of the model

\* steps allowed between two resets (caps self.steps)
MaxSteps == 2

----------------------------------------------------------------------------
\* Python's None and an optional value
None == <<>>
Some(v) == <<v>>
Val(o) == o[1]

Abs(n) == IF n < 0 THEN -n ELSE n

\* float division, truncated toward zero in fixed point
TruncDiv(a, b) ==
    IF (a >= 0) = (b > 0) THEN Abs(a) \div Abs(b) ELSE -(Abs(a) \div Abs(b))

\* integer square root: the r in lo..hi with r * r <= n < (r + 1) * (r + 1)
RECURSIVE IsqrtIn(_, _, _)
IsqrtIn(n, lo, hi) ==
    IF lo >= hi THEN lo
    ELSE LET mid == (lo + hi + 1) \div 2
         IN  IF mid * mid <= n THEN IsqrtIn(n, mid, hi) ELSE IsqrtIn(n, lo, mid - 1)

Isqrt(n) == IsqrtIn(n, 0, IF n < 1024 THEN n ELSE 1024)

\* np.linalg.norm of a 2-vector
Norm(v) == Isqrt(v[1] * v[1] + v[2] * v[2])

----------------------------------------------------------------------------
\* Constants of VSSStratEnv.__init__

v_wheel_deadzone == 50000
energy_scale == 40000
grad_scale == 75
move_scale == 120
min_dist == 10

\* self.ori_weights, in 1e-4
ori_weights == <<6600, 3200, 53, 80>>

\* what VSSBaseEnv.__init__ reads from the simulator for field_type=0:
\* the field (cm), the wheel radius (mm) and max_v (mm/s)
StdField == [length |-> 150, width |-> 130]
rbt_wheel_radius == 26
max_v == 1200

\* robot counts the environment is constructed with (blue, yellow)
EnvRobotCounts == {<<2, 1>>}

----------------------------------------------------------------------------
\* Inputs

\* actions passed to step: well-formed pairs, and vectors of the wrong length
GoodActions == {<<0, 0>>, <<1000, -30>>}
BadActions == {<<500>>, <<500, -500, 500>>}

\* what a noise source's sample() may return
OUSamples == {<<300, -800>>}

\* Frame fields the reward reads: the ball and blue robot 0
Frame(bx, by, rx, ry, vx, vy) ==
    [ball |-> [x |-> bx, y |-> by],
     robots_blue0 |-> [x |-> rx, y |-> ry, v_x |-> vx, v_y |-> vy]]

\* frames rsim.get_frame() may return after commands were sent
SimFrames ==
    {Frame(bx, 0, -30, 0, v, 0) : bx \in {-78, 0, 30, 75, 78}, v \in {0, 60}}

----------------------------------------------------------------------------
\* _actions_to_v_wheels

Clip(s, lo, hi) == IF s < lo THEN lo ELSE IF s > hi THEN hi ELSE s

DeadzoneInclusive(s) ==
    IF -v_wheel_deadzone <= s /\ s <= v_wheel_deadzone THEN 0 ELSE s

Deadzone(s) ==
    IF -v_wheel_deadzone < s /\ s < v_wheel_deadzone THEN 0 ELSE s

\* actions[1] is read last: a vector shorter than 2 raises IndexError
WheelsRaise(a) == Len(a) < 2

actions_to_v_wheels(a, mv, radius) ==
    LET left_wheel_speed == Clip(a[1] * mv, -(mv * 1000), mv * 1000)
        right_wheel_speed == Clip(a[2] * mv, -(mv * 1000), mv * 1000)
    IN  <<TruncDiv(Deadzone(left_wheel_speed), radius),
          TruncDiv(Deadzone(right_wheel_speed), radius)>>

----------------------------------------------------------------------------
\* _get_commands

Command(yellow, id, w) ==
    [yellow |-> yellow, id |-> id, v_wheel0 |-> w[1], v_wheel1 |-> w[2]]

\* ids of the noise sources _get_commands samples: blue 1.., then the yellows
SampledSources == 1..(n_robots[1] + n_robots[2] - 1)

\* self.actions after _get_commands(a), smp[i] being ou_actions[i].sample()
ActionsDict(a, smp) ==
    [i \in 0..(n_robots[1] - 1) |-> IF i = 0 THEN a ELSE smp[i]]

\* self.actions when _actions_to_v_wheels(actions) raises at line 151
ActionsDictPartial(a) == [i \in {0} |-> a]

get_commands(a, smp) ==
    <<Command(FALSE, 0, actions_to_v_wheels(a, max_v, rbt_wheel_radius))>>
    \o [k \in 1..(n_robots[1] - 1) |->
          Command(FALSE, k, actions_to_v_wheels(smp[k], max_v, rbt_wheel_radius))]
    \o [k \in 1..n_robots[2] |->
          Command(TRUE, k - 1,
                  actions_to_v_wheels(smp[n_robots[1] + k - 1], max_v,
                                      rbt_wheel_radius))]

----------------------------------------------------------------------------
\* _calculate_reward_and_done

\* __ball_grad: (previous distance to the goal) - (current), / grad_scale
ball_grad(lf, f) ==
    LET goal_pos == <<StdField.length \div 2, 0>>
        last_ball_dist == Norm(<<goal_pos[1] - lf.ball.x, goal_pos[2] - lf.ball.y>>)
        ball_dist == Norm(<<goal_pos[1] - f.ball.x, goal_pos[2] - f.ball.y>>)
    IN  TruncDiv((last_ball_dist - ball_dist) * 10000, grad_scale)

\* __move_reward: robot velocity projected on the unit vector robot -> ball
move_reward(f) ==
    LET robot_ball == <<f.ball.x - f.robots_blue0.x, f.ball.y - f.robots_blue0.y>>
        dot == robot_ball[1] * f.robots_blue0.v_x + robot_ball[2] * f.robots_blue0.v_y
    IN  TruncDiv(dot * 100, Norm(robot_ball) * move_scale)

\* __energy_penalty: reads the command last sent to blue robot 0
energy_penalty(cmds) ==
    TruncDiv(-(Abs(cmds[1].v_wheel0) + Abs(cmds[1].v_wheel1)) * 10, energy_scale)

\* goal check of lines 188-191
GoalRewardInclusive(f) ==
    IF f.ball.x * 2 >= StdField.length THEN 1
    ELSE IF f.ball.x * 2 <= -StdField.length THEN -1
    ELSE 0

GoalReward(f) ==
    IF f.ball.x * 2 > StdField.length THEN 1
    ELSE IF f.ball.x * 2 < -StdField.length THEN -1
    ELSE 0

\* whether the shaping components are computed (lines 192-193)
HasShaping(goal, lf) == goal = 0 /\ lf # None

\* the rewards array of lines 201-204: [move, gradient, energy, goal]
Rewards(lf, f, cmds) ==
    LET goal == GoalReward(f)
        shaped == HasShaping(goal, lf)
    IN  <<IF shaped THEN move_reward(f) ELSE 0,
          IF shaped THEN ball_grad(Val(lf), f) ELSE 0,
          IF shaped THEN energy_penalty(cmds) ELSE 0,
          goal * 10000>>

\* line 211
DoneBlueOnly(f) == GoalReward(f) > 0

Done(f) == GoalReward(f) # 0

\* the dict of lines 179-185
FreshInfo ==
    [reward_move |-> 0, reward_ball_grad |-> 0, reward_energy |-> 0,
     reward_goal |-> 0, Original_reward |-> 0]

\* lines 178-185: the accumulator is created when it is None
LazyInfo(info) == IF info = None THEN FreshInfo ELSE Val(info)

\* lines 206-209
Accumulate(info, r) ==
    [info EXCEPT !.reward_move = @ + r[1], !.reward_ball_grad = @ + r[2],
                 !.reward_energy = @ + r[3], !.reward_goal = @ + r[4]]

----------------------------------------------------------------------------
\* step (lines 100-117)

\* (strat_reward * self.ori_weights).sum()
OriginalReward(r) ==
    r[1] * ori_weights[1] + r[2] * ori_weights[2]
    + r[3] * ori_weights[3] + r[4] * ori_weights[4]

\* lines 106-109: the reward handed to the caller; the scalar of legacy mode
\* is written as a vector of length 1
ModeRewardSwapped(r) == IF stratified THEN <<OriginalReward(r)>> ELSE r

ModeReward(r) == IF ~stratified THEN <<OriginalReward(r)>> ELSE r

\* lines 111-115 on the accumulator left by _calculate_reward_and_done
StepInfo(info, r) ==
    [k \in DOMAIN info \cup {"goal_blue", "goal_yellow"} |->
        CASE k = "Original_reward" -> info[k] + OriginalReward(r)
          [] k = "goal_blue" -> IF r[4] = 10000 THEN 1 ELSE 0
          [] k = "goal_yellow" -> IF r[4] = -10000 THEN 1 ELSE 0
          [] OTHER -> info[k]]

\* the episode state a call may change
EpisodeState ==
    [actions |-> actions, cumulative_reward_info |-> cumulative_reward_info,
     frame |-> frame, last_frame |-> last_frame,
     sent_commands |-> sent_commands, ou_actions |-> ou_actions]

NoReturn == [reward |-> None, done |-> FALSE, info |-> None, strat |-> None]

\* pre when no step was called since the constructor or the last reset
NoSnapshot ==
    [actions |-> None, cumulative_reward_info |-> None, frame |-> None,
     last_frame |-> None, sent_commands |-> None,
     ou_actions |-> [i \in 0..(n_robots[1] + n_robots[2] - 1) |-> 0]]

\* step(a) when _get_commands raises: VSSBaseEnv.step has counted the step and
\* _get_commands has replaced self.actions (lines 148-151)
StepRaises(a) ==
    /\ WheelsRaise(a)
    /\ steps' = steps + 1
    /\ actions' = Some(ActionsDictPartial(a))
    /\ ret' = [op |-> "step", raised |-> TRUE, action |-> a, phase |-> phase,
               out |-> NoReturn]
    /\ UNCHANGED <<cumulative_reward_info, frame, last_frame, sent_commands,
                   ou_actions, phase, hist>>

\* step(a) running to its return statement
StepReturns(a) ==
    /\ ~WheelsRaise(a)
    /\ \E smp \in [SampledSources -> OUSamples], new \in SimFrames :
         LET commands == get_commands(a, smp)
             lf == frame
             r == Rewards(lf, new, commands)
             done == Done(new)
             info == StepInfo(Accumulate(LazyInfo(cumulative_reward_info), r), r)
         IN  /\ steps' = steps + 1
             /\ actions' = Some(ActionsDict(a, smp))
             /\ ou_actions' = [i \in DOMAIN ou_actions |->
                                 IF i \in SampledSources THEN ou_actions[i] + 1
                                 ELSE ou_actions[i]]
             /\ sent_commands' = Some(commands)
             /\ last_frame' = lf
             /\ frame' = Some(new)
             /\ cumulative_reward_info' = Some(info)
             /\ hist' = Append(hist, r)
             /\ phase' = IF done /\ phase = "RUNNING" THEN "DONE" ELSE phase
             /\ ret' = [op |-> "step", raised |-> FALSE, action |-> a,
                        phase |-> phase,
                        out |-> [reward |-> Some(ModeReward(r)), done |-> done,
                                 info |-> Some(info), strat |-> Some(r)]]

step(a) ==
    /\ ppc = "env"
    /\ steps < MaxSteps
    /\ pre' = EpisodeState
    /\ (StepRaises(a) \/ StepReturns(a))
    /\ UNCHANGED <<stratified, placeVars, wheelVars>>

----------------------------------------------------------------------------
\* _get_initial_positions_frame (lines 213-252)

\* fields the sampler is run on: the standard field, and one whose sampling
\* range [-half + 0.1, half - 0.1] is 2 cm long and 0 cm wide, so that no two
\* of its points are 0.1 apart
TinyField == [length |-> 22, width |-> 20]
PlaceFields == {StdField, TinyField}
PlaceRobotCounts == {<<1, 1>>, <<2, 1>>}

\* points of [a, b] that random.uniform(a, b) is let return
UniformPts(a, b) == {a, b} \cup {v \in {0, 6, 8} : a <= v /\ v <= b}

\* x() and y() of lines 218-222
XDraws(fld) == UniformPts(-(fld.length \div 2) + 10, (fld.length \div 2) - 10)
YDraws(fld) == {v \in UniformPts(-(fld.width \div 2) + 10, (fld.width \div 2) - 10) :
                  v # 6}
Draws(fld) == {<<px, py>> : px \in XDraws(fld), py \in YDraws(fld)}

Dist2(p, q) == (p[1] - q[1]) * (p[1] - q[1]) + (p[2] - q[2]) * (p[2] - q[2])

\* KDTree.get_nearest(p)[1], squared: the distance to the nearest inserted point
get_nearest2(ps, p) ==
    LET d == {Dist2(ps[i], p) : i \in 1..Len(ps)}
    IN  CHOOSE m \in d : \A e \in d : m <= e

\* the loop condition of lines 238 and 246
RejectedNearBall(ps, p) == Dist2(ps[1], p) < min_dist * min_dist

Rejected(ps, p) == get_nearest2(ps, p) < min_dist * min_dist

\* places.insert(pos) of lines 241 and 249
InsertPlace(ps, p) == Append(ps, p)

\* line 229 and 233-234: the ball is drawn and inserted first
PlaceBall ==
    /\ ppc = "start"
    /\ \E b \in Draws(field) : places' = InsertPlace(<<>>, b)
    /\ ppc' = "blue"
    /\ UNCHANGED <<field, n_robots, pos, envVars, wheelVars>>

\* the robots of a loop that are placed already
PlacedIn(loop) ==
    IF loop = "blue" THEN Len(places) - 1 ELSE Len(places) - 1 - n_robots[1]

LoopCount(loop) == IF loop = "blue" THEN n_robots[1] ELSE n_robots[2]

\* line 237 / 245: the first draw for the next robot of the loop
FirstDraw(loop) ==
    /\ ppc = loop
    /\ PlacedIn(loop) < LoopCount(loop)
    /\ \E p \in Draws(field) : pos' = Some(p)
    /\ ppc' = loop \o "_while"
    /\ UNCHANGED <<field, n_robots, places, envVars, wheelVars>>

\* line 239 / 247: the draw is too close to a placed point and is replaced
Redraw(loop, p) ==
    /\ ppc = loop \o "_while"
    /\ Rejected(places, Val(pos))
    /\ pos' = Some(p)
    /\ UNCHANGED <<field, n_robots, places, ppc, envVars, wheelVars>>

\* lines 241-242 / 249-250: the draw is kept and inserted
Accept(loop) ==
    /\ ppc = loop \o "_while"
    /\ ~Rejected(places, Val(pos))
    /\ places' = InsertPlace(places, Val(pos))
    /\ ppc' = loop
    /\ UNCHANGED <<field, n_robots, pos, envVars, wheelVars>>

\* the blue loop is exhausted: line 244
BlueLoopEnds ==
    /\ ppc = "blue"
    /\ PlacedIn("blue") = LoopCount("blue")
    /\ ppc' = "yellow"
    /\ UNCHANGED <<field, n_robots, places, pos, envVars, wheelVars>>

\* the yellow loop is exhausted: line 252 returns pos_frame
ReturnFrame ==
    /\ ppc = "yellow"
    /\ PlacedIn("yellow") = LoopCount("yellow")
    /\ ppc' = "done"
    /\ UNCHANGED <<field, n_robots, places, pos, envVars, wheelVars>>

\* a draw the loop condition lets through exists and is the one drawn
RedrawAccepted(loop) ==
    /\ ppc = loop \o "_while"
    /\ \E p \in Draws(field) : ~Rejected(places, p) /\ Redraw(loop, p)

----------------------------------------------------------------------------
\* reset (lines 91-98)

\* line 93
ResetInfoKept == cumulative_reward_info

ResetInfo == None

\* lines 95-96
ResetNoise == [i \in DOMAIN ou_actions |-> 0]

\* placements reset is followed from: ball and blue robot 0 on the line y = 0
ResetDraws == {d \in Draws(StdField) : d[2] = 0 /\ d[1] < 65}

reset ==
    /\ ppc = "env"
    /\ pre' = NoSnapshot
    /\ actions' = None
    /\ cumulative_reward_info' = ResetInfo
    /\ ou_actions' = ResetNoise
    /\ steps' = 0
    /\ last_frame' = None
    /\ sent_commands' = None
    \* _get_initial_positions_frame returned: the ball, then blue robot 0
    \* drawn until the loop condition let it through
    /\ \E b \in ResetDraws, p \in ResetDraws :
         /\ ~Rejected(<<b>>, p)
         /\ frame' = Some(Frame(b[1], b[2], p[1], p[2], 0, 0))
    /\ hist' = <<>>
    /\ phase' = "RUNNING"
    /\ ret' = [op |-> "reset", raised |-> FALSE, action |-> <<>>, phase |-> phase,
               out |-> NoReturn]
    /\ UNCHANGED <<stratified, placeVars, wheelVars>>

----------------------------------------------------------------------------
\* _actions_to_v_wheels applied to one input

WheelActions == {-1000, -500, -50, -49, -42, -41, 0, 30, 41, 42, 49, 50, 51, 1000}
WheelInputs ==
    [actions : WheelActions \X WheelActions, max_v : {max_v, 1000},
     radius : {rbt_wheel_radius, 20}]

ApplyWheels ==
    /\ ppc = "wheels"
    /\ w_out = None
    /\ w_out' = Some(actions_to_v_wheels(w_in.actions, w_in.max_v, w_in.radius))
    /\ UNCHANGED <<w_in, envVars, placeVars>>

----------------------------------------------------------------------------
\* The environment after __init__ (lines 55-89)

EnvInit ==
    /\ stratified \in BOOLEAN
    /\ actions = None
    /\ cumulative_reward_info = None
    /\ frame = None
    /\ last_frame = None
    /\ sent_commands = None
    /\ steps = 0
    /\ ou_actions = [i \in 0..(n_robots[1] + n_robots[2] - 1) |-> 0]
    /\ phase = "UNINITIALIZED"
    /\ hist = <<>>
    /\ ret = [op |-> "init", raised |-> FALSE, action |-> <<>>,
              phase |-> "UNINITIALIZED", out |-> NoReturn]
    /\ pre = NoSnapshot

Init ==
    /\ n_robots \in EnvRobotCounts
    /\ field = StdField
    /\ places = <<>>
    /\ pos = None
    /\ ppc = "env"
    /\ w_in = [actions |-> <<0, 0>>, max_v |-> max_v, radius |-> rbt_wheel_radius]
    /\ w_out = None
    /\ EnvInit

Next ==
    \/ reset
    \/ \E a \in GoodActions \cup BadActions : step(a)

Spec == Init /\ [][Next]_vars

\* the sampler, called on a constructed environment
InitPlace ==
    /\ n_robots \in PlaceRobotCounts
    /\ field \in PlaceFields
    /\ places = <<>>
    /\ pos = None
    /\ ppc = "start"
    /\ w_in = [actions |-> <<0, 0>>, max_v |-> max_v, radius |-> rbt_wheel_radius]
    /\ w_out = None
    /\ EnvInit

NextPlace ==
    \/ PlaceBall
    \/ \E loop \in {"blue", "yellow"} :
         \/ FirstDraw(loop)
         \/ \E p \in Draws(field) : Redraw(loop, p)
         \/ Accept(loop)
    \/ BlueLoopEnds
    \/ ReturnFrame

SpecPlace == InitPlace /\ [][NextPlace]_vars

\* The loop keeps running, and a draw that the loop condition lets through is
\* drawn eventually whenever one exists (uniform draws hit it with probability 1).
SpecPlaceFair ==
    /\ SpecPlace
    /\ WF_vars(NextPlace)
    /\ \A loop \in {"blue", "yellow"} : SF_vars(RedrawAccepted(loop))

\* _actions_to_v_wheels on every input of WheelInputs
InitWheels ==
    /\ n_robots \in EnvRobotCounts
    /\ field = StdField
    /\ places = <<>>
    /\ pos = None
    /\ ppc = "wheels"
    /\ w_in \in WheelInputs
    /\ w_out = None
    /\ EnvInit

NextWheels == ApplyWheels

SpecWheels == InitWheels /\ [][NextWheels]_vars

----------------------------------------------------------------------------
\* Properties

LastStepReturned == ret.op = "step" /\ ~ret.raised

RECURSIVE SumComponent(_, _)
SumComponent(h, k) ==
    IF h = <<>> THEN 0 ELSE h[1][k] + SumComponent(Tail(h), k)

\* the weighted scalar of one reward vector, weights (0.6600, 0.3200, 0.0053, 0.0080)
Weighted(r) == 6600 * r[1] + 3200 * r[2] + 53 * r[3] + 80 * r[4]

RECURSIVE SumWeighted(_)
SumWeighted(h) == IF h = <<>> THEN 0 ELSE Weighted(h[1]) + SumWeighted(Tail(h))

\* C1: a step called before the first reset, or after a step returned done and
\* before the next reset, raises and leaves the episode state (accumulator,
\* action cache, frames) as it was.
C1_UsageErrorFails ==
    (ret.op = "step" /\ ret.phase # "RUNNING")
        => (ret.raised /\ EpisodeState = pre)

\* C2: after the N-th successful step since the last reset (N >= 1) the four
\* totals are the sums of the components of the N reward vectors of the episode
\* and Original_reward is the sum of their weighted scalars; the info a step
\* returns is that accumulator.
C2_TotalsAreSums ==
    (phase # "UNINITIALIZED")
        => /\ (cumulative_reward_info = None) = (hist = <<>>)
           /\ hist # <<>> =>
                LET info == Val(cumulative_reward_info)
                IN  /\ info.reward_move = SumComponent(hist, 1)
                    /\ info.reward_ball_grad = SumComponent(hist, 2)
                    /\ info.reward_energy = SumComponent(hist, 3)
                    /\ info.reward_goal = SumComponent(hist, 4)
                    /\ info.Original_reward = SumWeighted(hist)
           /\ LastStepReturned => ret.out.info = cumulative_reward_info

\* two steps of a reset episode, with energy spent on the first and a goal on
\* the second
C2_Witness ==
    /\ phase = "DONE"
    /\ Len(hist) = 2
    /\ hist[1][3] # 0
    /\ hist[2][4] # 0

\* C3: a step whose frame has ball x > +half_length returns exactly [0,0,0,+1],
\* one with ball x < -half_length exactly [0,0,0,-1], any other step has goal
\* component 0 (order move, gradient, energy, goal).
C3_GoalVector ==
    LastStepReturned =>
        LET x == Val(frame).ball.x
            r == Val(ret.out.strat)
        IN  /\ Len(r) = 4
            /\ 2 * x > StdField.length => r = <<0, 0, 0, 10000>>
            /\ 2 * x < -StdField.length => r = <<0, 0, 0, -10000>>
            /\ (2 * x <= StdField.length /\ 2 * x >= -StdField.length) => r[4] = 0

\* a goal of the learning side on a step that has a previous frame and a
\* non-zero command, and a step with the ball exactly on the goal line
C3_Witness ==
    /\ LastStepReturned
    /\ last_frame # None
    /\ Val(sent_commands)[1].v_wheel0 # 0
    /\ Val(frame).ball.x = 78
    /\ Val(ret.out.strat) = <<0, 0, 0, 10000>>

\* C4: done iff the goal component is non-zero; goal_blue = 1 exactly when it is
\* +1 and goal_yellow = 1 exactly when it is -1; never both, and both 0 on a
\* non-terminal step; the ball beyond +half_length gives done, goal_blue = 1,
\* goal_yellow = 0.
C4_DoneAndIndicators ==
    LastStepReturned =>
        LET r == Val(ret.out.strat)
            info == Val(ret.out.info)
            done == ret.out.done
        IN  /\ done <=> r[4] # 0
            /\ info.goal_blue \in {0, 1} /\ info.goal_yellow \in {0, 1}
            /\ info.goal_blue = 1 <=> r[4] = 10000
            /\ info.goal_yellow = 1 <=> r[4] = -10000
            /\ ~(info.goal_blue = 1 /\ info.goal_yellow = 1)
            /\ ~done => (info.goal_blue = 0 /\ info.goal_yellow = 0)
            /\ 2 * Val(frame).ball.x > StdField.length
                 => (done /\ info.goal_blue = 1 /\ info.goal_yellow = 0)
            /\ 2 * Val(frame).ball.x < -StdField.length
                 => (done /\ info.goal_blue = 0 /\ info.goal_yellow = 1)

\* the opponent scores on the second step of an episode
C4_Witness ==
    /\ LastStepReturned
    /\ ret.phase = "RUNNING"
    /\ steps = 2
    /\ ret.out.done
    /\ Val(ret.out.info).goal_yellow = 1
    /\ Val(ret.out.info).goal_blue = 0

\* C5: on the first step after a reset the move and gradient components are 0.
C5_FirstStepNoShaping ==
    (LastStepReturned /\ ret.phase = "RUNNING" /\ steps = 1)
        => (Val(ret.out.strat)[1] = 0 /\ Val(ret.out.strat)[2] = 0)

\* C6: the mode never changes; legacy mode returns the weighted scalar of the
\* step's vector, stratified mode the vector itself; in both modes
\* Original_reward grows by the weighted scalar and the four totals by the
\* unweighted components.
C6_ModeAndAggregation ==
    /\ [][stratified' = stratified]_vars
    /\ [](LastStepReturned =>
            LET r == Val(ret.out.strat)
                info == Val(ret.out.info)
                before == IF pre.cumulative_reward_info = None
                          THEN [reward_move |-> 0, reward_ball_grad |-> 0,
                                reward_energy |-> 0, reward_goal |-> 0,
                                Original_reward |-> 0]
                          ELSE Val(pre.cumulative_reward_info)
            IN  /\ stratified => Val(ret.out.reward) = r
                /\ ~stratified => Val(ret.out.reward) = <<Weighted(r)>>
                /\ info.Original_reward = before.Original_reward + Weighted(r)
                /\ info.reward_move = before.reward_move + r[1]
                /\ info.reward_ball_grad = before.reward_ball_grad + r[2]
                /\ info.reward_energy = before.reward_energy + r[3]
                /\ info.reward_goal = before.reward_goal + r[4])

\* a legacy-mode step on a non-empty accumulator with non-zero move, gradient
\* and energy components
C6_Witness ==
    /\ LastStepReturned
    /\ ~stratified
    /\ pre.cumulative_reward_info # None
    /\ Val(ret.out.strat)[1] # 0
    /\ Val(ret.out.strat)[2] # 0
    /\ Val(ret.out.strat)[3] # 0
    /\ Val(ret.out.reward) = <<Weighted(Val(ret.out.strat))>>

\* C7: for actions in [-1, 1] both wheel speeds are within max_v / wheel_radius;
\* a scaled and clipped speed of magnitude < 0.05 gives exactly 0 and one of
\* magnitude >= 0.05 gives speed / wheel_radius; action [0, 0] gives (0, 0) and
\* an energy penalty of 0.
C7_WheelSpeeds ==
    w_out # None =>
        \A k \in 1..2 :
            LET a == w_in.actions[k]
                scaled == a * w_in.max_v
                limit == w_in.max_v * 1000
                clipped == IF scaled > limit THEN limit
                           ELSE IF scaled < -limit THEN -limit ELSE scaled
                out == Val(w_out)[k]
            IN  /\ Abs(out) <= TruncDiv(limit, w_in.radius)
                /\ Abs(clipped) < 50000 => out = 0
                /\ Abs(clipped) >= 50000 => out = TruncDiv(clipped, w_in.radius)
                /\ w_in.actions = <<0, 0>> =>
                     /\ Val(w_out) = <<0, 0>>
                     /\ energy_penalty(<<Command(FALSE, 0, Val(w_out))>>) = 0

\* one wheel exactly on the dead-zone threshold, the other strictly inside it
C7_Witness ==
    /\ w_out # None
    /\ w_in.actions[1] * w_in.max_v = 50000
    /\ Val(w_out)[1] = TruncDiv(50000, w_in.radius)
    /\ Val(w_out)[1] # 0
    /\ w_in.actions[2] * w_in.max_v = -49000
    /\ Val(w_out)[2] = 0

\* C8: every two placed entities (ball, blue robots, yellow robots) are at
\* distance >= 0.1, every placed x is in [-half_length + 0.1, half_length - 0.1]
\* and y in [-half_width + 0.1, half_width - 0.1]; a returned frame holds the
\* ball, then the blue robots, then the yellow robots.
C8_Separation ==
    /\ \A i \in 1..Len(places) : \A j \in 1..Len(places) :
         i # j => Dist2(places[i], places[j]) >= 100
    /\ \A i \in 1..Len(places) :
         /\ 2 * places[i][1] >= -field.length + 20
         /\ 2 * places[i][1] <= field.length - 20
         /\ 2 * places[i][2] >= -field.width + 20
         /\ 2 * places[i][2] <= field.width - 20
    /\ Len(places) <= 1 + n_robots[1] + n_robots[2]
    /\ ppc = "done" => Len(places) = 1 + n_robots[1] + n_robots[2]

\* a returned frame whose yellow robot is at exactly 0.1 from a blue robot and
\* farther than 0.1 from the ball
C8_Witness ==
    /\ ppc = "done"
    /\ n_robots = <<2, 1>>
    /\ Dist2(places[4], places[2]) = 100
    /\ Dist2(places[4], places[1]) > 100

\* C9: the sampler terminates for every robot count and field geometry.
C9_SamplerTerminates == <>(ppc = "done")

\* C10: a step with an action vector whose length is not 2 raises and leaves
\* the action cache, the accumulator, the frames and the noise sources as they
\* were.
C10_MalformedRejected ==
    (ret.op = "step" /\ Len(ret.action) # 2)
        => (ret.raised /\ EpisodeState = pre)

====
